---- MODULE Spec2Model ----
(***************************************************************************)
(* The DeFiLending contract (Solidity ^0.8.0): asset registry, per-user    *)
(* positions, lazy simple-interest accrual, health checks and liquidation. *)
(* A transaction either runs to its end or reverts; a revert restores the  *)
(* storage the transaction started from.  Arithmetic is checked: a result  *)
(* outside 0..MaxUint reverts with a Panic.                                *)
(***************************************************************************)
EXTENDS Integers, Sequences, FiniteSets, TLC

\* ------------------------------------------------------------------ bounds

\* Word width of the unsigned integers (uint256 in the source).
Width == 21
MaxUint == 2^Width - 1

\* getAssetPrice scales the feed's answer by 10**10; the model keeps the
\* scaling and bounds the exponent so that scaled prices fit the word.
PriceDecimals == 1
PriceScale == 10^PriceDecimals

\* Timestamps are counted in ticks; `365 days` is YearTicks ticks.  The
\* factor seconds-per-tick is common to timeElapsed and `365 days` and
\* cancels in the floor division of _updateInterest.
YearTicks == 1

\* Supplies are explored while an asset's totalSupplied stays within this.
MaxSupply == 17

\* Steps that change the storage, the clock or the feed, explored in one run
\* (reverting calls are explored without limit).
MaxTx == 6

\* ------------------------------------------------------------ input sets

Accounts == {"alice", "bob"}
Symbols == {"ETH", "DAI"}
\* The symbols the calls of Next are made on.
Traded == {"ETH"}
Amounts == {0, 7, 10}
Answers == {0, 1, 2}

NullAddress == 0
TokenAddresses == {1}
FeedAddresses == {1}

\* (collateralFactor, borrowFactor, liquidationThreshold, supplyInterestRate,
\* borrowInterestRate) offered to addAsset and updateAsset.
Params(cf, bf, lt, sr, br) ==
    [collateralFactor |-> cf, borrowFactor |-> bf, liquidationThreshold |-> lt,
     supplyInterestRate |-> sr, borrowInterestRate |-> br]

P1 == Params(7500, 7000, 8500, 0, 10000)
P2 == Params(5000, 5000, 12000, 5000, 0)

\* Parameters that addAsset and updateAsset reject, one per require.
BadParams ==
    { Params(9500, 9000, 9800, 0, 0),
      Params(7500, 8000, 8500, 0, 0),
      Params(7500, 7000, 7500, 0, 0) }

ParamChoices == {P1, P2} \cup BadParams

\* Calls of addAsset: (caller, tokenAddress, priceFeedAddress, parameters).
AddChoices ==
    { <<"alice", ta, fa, p>> :
        ta \in TokenAddresses, fa \in FeedAddresses, p \in {P1} \cup BadParams }
    \cup { <<"alice", NullAddress, fa, P1>> : fa \in FeedAddresses }
    \cup { <<"bob", ta, fa, P1>> : ta \in TokenAddresses, fa \in FeedAddresses }

\* Calls of updateAsset: (caller, parameters, isActive).
UpdateChoices ==
    { <<"alice", P1, FALSE>>, <<"alice", P2, TRUE>>, <<"bob", P1, FALSE>> }
    \cup { <<"alice", p, TRUE>> : p \in BadParams }

\* ------------------------------------------------------------- the state

VARIABLES
    assets,          \* mapping(string => Asset)
    assetSymbols,    \* string[]
    userPositions,   \* mapping(address => mapping(string => UserPosition))
    status,          \* ReentrancyGuard's flag
    now,             \* block.timestamp
    answer,          \* the price feeds' latest answers
    frame,           \* the transaction waiting in a token transfer, if any
    last,            \* the name and outcome of the call that just ended
    ntx              \* steps that changed the storage, the clock or the feed

vars == <<assets, assetSymbols, userPositions, status, now, answer, frame, last, ntx>>

NOT_ENTERED == 1
ENTERED == 2

owner == "alice"

\* Storage a revert restores.
Ledger == [assets |-> assets, userPositions |-> userPositions]

NoAsset ==
    [tokenAddress |-> NullAddress, priceFeedAddress |-> NullAddress,
     collateralFactor |-> 0, borrowFactor |-> 0, liquidationThreshold |-> 0,
     totalSupplied |-> 0, totalBorrowed |-> 0,
     supplyInterestRate |-> 0, borrowInterestRate |-> 0, isActive |-> FALSE]

NoPosition == [supplied |-> 0, borrowed |-> 0, lastUpdateTimestamp |-> 0]

EmptyLedger ==
    [assets |-> [s \in Symbols |-> NoAsset],
     userPositions |-> [u \in Accounts |-> [s \in Symbols |-> NoPosition]]]

NoFrame ==
    [op |-> "none", sender |-> "none", user |-> "none", symbol |-> "none",
     arg |-> 0, amount |-> 0, seize |-> 0, stage |-> 0, saved |-> EmptyLedger]

\* ------------------------------------------------------ checked arithmetic

OK == "ok"
PANIC == "Panic"
\* The handler has reached a call of the token and waits for its return.
CALL == "call"

MulOk(a, b) == b = 0 \/ a <= MaxUint \div b
AddOk(a, b) == a <= MaxUint - b
SubOk(a, b) == a >= b

Min(a, b) == IF a > b THEN b ELSE a

\* Result of a handler: its outcome and the storage it leaves.
Res(e, L) == [err |-> e, L |-> L, amount |-> 0, seize |-> 0]
Val(e, v) == [err |-> e, val |-> v]

\* ------------------------------------------------------ internal functions

\* getAssetPrice without the require on the sign of the answer.
getAssetPrice_acceptsAnyAnswer(L, ans, symbol) ==
    LET asset == L.assets[symbol] IN
    IF asset.tokenAddress = NullAddress THEN Val("Asset does not exist", 0)
    ELSE IF asset.priceFeedAddress \notin DOMAIN ans THEN Val("Feed call failed", 0)
    ELSE LET price == ans[asset.priceFeedAddress] IN
         IF ~MulOk(price, PriceScale) THEN Val(PANIC, 0)
         ELSE Val(OK, price * PriceScale)

\* getAssetPrice: the feed's answer scaled to 18 decimals; reverts when the
\* asset is unknown, the feed cannot be called or the answer is not positive.
getAssetPrice(L, ans, symbol) ==
    LET asset == L.assets[symbol] IN
    IF asset.tokenAddress = NullAddress THEN Val("Asset does not exist", 0)
    ELSE IF asset.priceFeedAddress \notin DOMAIN ans THEN Val("Feed call failed", 0)
    ELSE LET price == ans[asset.priceFeedAddress] IN
         IF ~(price > 0) THEN Val("Invalid price", 0)
         ELSE IF ~MulOk(price, PriceScale) THEN Val(PANIC, 0)
         ELSE Val(OK, price * PriceScale)

\* interestOn in saturating arithmetic: a product beyond the word is MaxUint.
interestOn_saturates(balance, rate, timeElapsed) ==
    IF MulOk(balance, rate) /\ MulOk(balance * rate, timeElapsed)
    THEN Val(OK, (balance * rate * timeElapsed) \div (10000 * YearTicks))
    ELSE Val(OK, MaxUint \div (10000 * YearTicks))

\* (balance * rate * timeElapsed) / (10000 * 365 days), multiplications first.
interestOn(balance, rate, timeElapsed) ==
    IF ~MulOk(balance, rate) THEN Val(PANIC, 0)
    ELSE IF ~MulOk(balance * rate, timeElapsed) THEN Val(PANIC, 0)
    ELSE Val(OK, (balance * rate * timeElapsed) \div (10000 * YearTicks))

\* The supply branch of _updateInterest.
accrueSupplied(L, symbol, user, timeElapsed) ==
    LET asset == L.assets[symbol]
        position == L.userPositions[user][symbol]
        supplyInterest == interestOn(position.supplied, asset.supplyInterestRate, timeElapsed)
    IN IF ~(position.supplied > 0) THEN Res(OK, L)
       ELSE IF supplyInterest.err # OK THEN Res(supplyInterest.err, L)
       ELSE IF ~AddOk(position.supplied, supplyInterest.val) THEN Res(PANIC, L)
       ELSE IF ~AddOk(asset.totalSupplied, supplyInterest.val) THEN Res(PANIC, L)
       ELSE Res(OK, [L EXCEPT
                !.userPositions[user][symbol].supplied = @ + supplyInterest.val,
                !.assets[symbol].totalSupplied = @ + supplyInterest.val])

\* The borrow branch adding the interest to the position only.
accrueBorrowed_positionOnly(L, symbol, user, timeElapsed) ==
    LET asset == L.assets[symbol]
        position == L.userPositions[user][symbol]
        borrowInterest == interestOn(position.borrowed, asset.borrowInterestRate, timeElapsed)
    IN IF ~(position.borrowed > 0) THEN Res(OK, L)
       ELSE IF borrowInterest.err # OK THEN Res(borrowInterest.err, L)
       ELSE IF ~AddOk(position.borrowed, borrowInterest.val) THEN Res(PANIC, L)
       ELSE Res(OK, [L EXCEPT
                !.userPositions[user][symbol].borrowed = @ + borrowInterest.val])

\* The borrow branch of _updateInterest.
accrueBorrowed(L, symbol, user, timeElapsed) ==
    LET asset == L.assets[symbol]
        position == L.userPositions[user][symbol]
        borrowInterest == interestOn(position.borrowed, asset.borrowInterestRate, timeElapsed)
    IN IF ~(position.borrowed > 0) THEN Res(OK, L)
       ELSE IF borrowInterest.err # OK THEN Res(borrowInterest.err, L)
       ELSE IF ~AddOk(position.borrowed, borrowInterest.val) THEN Res(PANIC, L)
       ELSE IF ~AddOk(asset.totalBorrowed, borrowInterest.val) THEN Res(PANIC, L)
       ELSE Res(OK, [L EXCEPT
                !.userPositions[user][symbol].borrowed = @ + borrowInterest.val,
                !.assets[symbol].totalBorrowed = @ + borrowInterest.val])

\* _updateInterest that leaves lastUpdateTimestamp alone after accruing.
_updateInterest_keepsTimestamp(L, t, symbol, user) ==
    LET position == L.userPositions[user][symbol] IN
    IF position.lastUpdateTimestamp = 0
    THEN Res(OK, [L EXCEPT !.userPositions[user][symbol].lastUpdateTimestamp = t])
    ELSE IF ~SubOk(t, position.lastUpdateTimestamp) THEN Res(PANIC, L)
    ELSE LET timeElapsed == t - position.lastUpdateTimestamp IN
         IF timeElapsed = 0 THEN Res(OK, L)
         ELSE LET r1 == accrueSupplied(L, symbol, user, timeElapsed) IN
              IF r1.err # OK THEN Res(r1.err, L)
              ELSE LET r2 == accrueBorrowed(r1.L, symbol, user, timeElapsed) IN
                   IF r2.err # OK THEN Res(r2.err, L)
                   ELSE Res(OK, r2.L)

_updateInterest(L, t, symbol, user) ==
    LET position == L.userPositions[user][symbol] IN
    IF position.lastUpdateTimestamp = 0
    THEN Res(OK, [L EXCEPT !.userPositions[user][symbol].lastUpdateTimestamp = t])
    ELSE IF ~SubOk(t, position.lastUpdateTimestamp) THEN Res(PANIC, L)
    ELSE LET timeElapsed == t - position.lastUpdateTimestamp IN
         IF timeElapsed = 0 THEN Res(OK, L)
         ELSE LET r1 == accrueSupplied(L, symbol, user, timeElapsed) IN
              IF r1.err # OK THEN Res(r1.err, L)
              ELSE LET r2 == accrueBorrowed(r1.L, symbol, user, timeElapsed) IN
                   IF r2.err # OK THEN Res(r2.err, L)
                   ELSE Res(OK, [r2.L EXCEPT
                            !.userPositions[user][symbol].lastUpdateTimestamp = t])

\* withinLimit comparing the collateral value with the unpriced debt.
withinLimit_debtUnpriced(supplied, borrowed, assetPrice, factorBps) ==
    IF ~MulOk(supplied, assetPrice) THEN Val(PANIC, FALSE)
    ELSE IF ~MulOk(supplied * assetPrice, factorBps) THEN Val(PANIC, FALSE)
    ELSE Val(OK, (supplied * assetPrice * factorBps) \div 10000 >= borrowed)

\* collateralValue >= borrowValue for the given balances under factorBps:
\* (supplied * assetPrice * factorBps) / 10000 >= borrowed * assetPrice.
withinLimit(supplied, borrowed, assetPrice, factorBps) ==
    IF ~MulOk(supplied, assetPrice) THEN Val(PANIC, FALSE)
    ELSE IF ~MulOk(supplied * assetPrice, factorBps) THEN Val(PANIC, FALSE)
    ELSE IF ~MulOk(borrowed, assetPrice) THEN Val(PANIC, FALSE)
    ELSE Val(OK, (supplied * assetPrice * factorBps) \div 10000 >= borrowed * assetPrice)

\* _checkHealthFactor accepting every position.
_checkHealthFactor_acceptsAll(L, ans, symbol, user, supplied, borrowed) ==
    Val(OK, TRUE)

_checkHealthFactor(L, ans, symbol, user, supplied, borrowed) ==
    IF borrowed = 0 THEN Val(OK, TRUE)
    ELSE LET asset == L.assets[symbol]
             assetPrice == getAssetPrice(L, ans, symbol)
         IN IF assetPrice.err # OK THEN Val(assetPrice.err, FALSE)
            ELSE withinLimit(supplied, borrowed, assetPrice.val, asset.collateralFactor)

\* _isHealthy that applies the collateral factor.
_isHealthy_usesCollateralFactor(L, ans, symbol, user) ==
    LET position == L.userPositions[user][symbol] IN
    IF position.borrowed = 0 THEN Val(OK, TRUE)
    ELSE LET asset == L.assets[symbol]
             assetPrice == getAssetPrice(L, ans, symbol)
         IN IF assetPrice.err # OK THEN Val(assetPrice.err, FALSE)
            ELSE withinLimit(position.supplied, position.borrowed, assetPrice.val,
                             asset.collateralFactor)

_isHealthy(L, ans, symbol, user) ==
    LET position == L.userPositions[user][symbol] IN
    IF position.borrowed = 0 THEN Val(OK, TRUE)
    ELSE LET asset == L.assets[symbol]
             assetPrice == getAssetPrice(L, ans, symbol)
         IN IF assetPrice.err # OK THEN Val(assetPrice.err, FALSE)
            ELSE withinLimit(position.supplied, position.borrowed, assetPrice.val,
                             asset.liquidationThreshold)

\* type(uint256).max
MaxHealthFactor == MaxUint

\* getUserHealthFactor that applies the liquidation threshold.
getUserHealthFactor_usesLiquidationThreshold(L, ans, symbol, user) ==
    LET position == L.userPositions[user][symbol] IN
    IF position.borrowed = 0 THEN Val(OK, MaxHealthFactor)
    ELSE LET asset == L.assets[symbol]
             assetPrice == getAssetPrice(L, ans, symbol)
         IN IF assetPrice.err # OK THEN Val(assetPrice.err, 0)
            ELSE IF ~MulOk(position.supplied, assetPrice.val) THEN Val(PANIC, 0)
            ELSE IF ~MulOk(position.supplied * assetPrice.val, asset.liquidationThreshold)
                 THEN Val(PANIC, 0)
            ELSE IF ~MulOk(position.borrowed, assetPrice.val) THEN Val(PANIC, 0)
            ELSE LET collateralValue ==
                         (position.supplied * assetPrice.val * asset.liquidationThreshold) \div 10000
                     borrowValue == position.borrowed * assetPrice.val
                 IN IF ~MulOk(collateralValue, 10000) THEN Val(PANIC, 0)
                    ELSE Val(OK, (collateralValue * 10000) \div borrowValue)

getUserHealthFactor(L, ans, symbol, user) ==
    LET position == L.userPositions[user][symbol] IN
    IF position.borrowed = 0 THEN Val(OK, MaxHealthFactor)
    ELSE LET asset == L.assets[symbol]
             assetPrice == getAssetPrice(L, ans, symbol)
         IN IF assetPrice.err # OK THEN Val(assetPrice.err, 0)
            ELSE IF ~MulOk(position.supplied, assetPrice.val) THEN Val(PANIC, 0)
            ELSE IF ~MulOk(position.supplied * assetPrice.val, asset.collateralFactor)
                 THEN Val(PANIC, 0)
            ELSE IF ~MulOk(position.borrowed, assetPrice.val) THEN Val(PANIC, 0)
            ELSE LET collateralValue ==
                         (position.supplied * assetPrice.val * asset.collateralFactor) \div 10000
                     borrowValue == position.borrowed * assetPrice.val
                 IN IF ~MulOk(collateralValue, 10000) THEN Val(PANIC, 0)
                    ELSE Val(OK, (collateralValue * 10000) \div borrowValue)

\* ------------------------------------------------------- public functions
\* Each returns the outcome and the storage left: a revert leaves the
\* storage the call started from; CALL is the point where the handler calls
\* the token and hands control to it.

REENTRANT == "ReentrancyGuard: reentrant call"
UNAUTHORIZED == "OwnableUnauthorizedAccount"

AtCall(L, amount, seize) == [err |-> CALL, L |-> L, amount |-> amount, seize |-> seize]

\* The require of the nonReentrant modifier.
nonReentrant(st) == st # ENTERED

\* onlyOwner letting every account through.
onlyOwner_anyCaller(caller) == caller \in Accounts

\* The require of the onlyOwner modifier.
onlyOwner(caller) == caller = owner

addAsset(L, caller, symbol, tokenAddress, priceFeedAddress, p) ==
    IF ~onlyOwner(caller) THEN Res(UNAUTHORIZED, L)
    ELSE IF ~(L.assets[symbol].tokenAddress = NullAddress) THEN Res("Asset already exists", L)
    ELSE IF ~(p.collateralFactor <= 9000) THEN Res("Collateral factor too high", L)
    ELSE IF ~(p.borrowFactor <= p.collateralFactor) THEN Res("Borrow factor too high", L)
    ELSE IF ~(p.liquidationThreshold > p.collateralFactor)
         THEN Res("Invalid liquidation threshold", L)
    ELSE Res(OK, [L EXCEPT !.assets[symbol] =
            [tokenAddress |-> tokenAddress,
             priceFeedAddress |-> priceFeedAddress,
             collateralFactor |-> p.collateralFactor,
             borrowFactor |-> p.borrowFactor,
             liquidationThreshold |-> p.liquidationThreshold,
             totalSupplied |-> 0,
             totalBorrowed |-> 0,
             supplyInterestRate |-> p.supplyInterestRate,
             borrowInterestRate |-> p.borrowInterestRate,
             isActive |-> TRUE]])

updateAsset(L, caller, symbol, p, isActive) ==
    IF ~onlyOwner(caller) THEN Res(UNAUTHORIZED, L)
    ELSE IF ~(L.assets[symbol].tokenAddress # NullAddress) THEN Res("Asset does not exist", L)
    ELSE IF ~(p.collateralFactor <= 9000) THEN Res("Collateral factor too high", L)
    ELSE IF ~(p.borrowFactor <= p.collateralFactor) THEN Res("Borrow factor too high", L)
    ELSE IF ~(p.liquidationThreshold > p.collateralFactor)
         THEN Res("Invalid liquidation threshold", L)
    ELSE Res(OK, [L EXCEPT
            !.assets[symbol].collateralFactor = p.collateralFactor,
            !.assets[symbol].borrowFactor = p.borrowFactor,
            !.assets[symbol].liquidationThreshold = p.liquidationThreshold,
            !.assets[symbol].supplyInterestRate = p.supplyInterestRate,
            !.assets[symbol].borrowInterestRate = p.borrowInterestRate,
            !.assets[symbol].isActive = isActive])

\* supply that refuses a position whose debt exceeds its collateral limit.
supply_checksHealth(L, st, t, sender, symbol, amount) ==
    LET asset == L.assets[symbol] IN
    IF ~nonReentrant(st) THEN Res(REENTRANT, L)
    ELSE IF ~asset.isActive THEN Res("Asset not active", L)
    ELSE IF ~(amount > 0) THEN Res("Amount must be greater than 0", L)
    ELSE LET r == _updateInterest(L, t, symbol, sender) IN
         IF r.err # OK THEN Res(r.err, L)
         ELSE LET pos == r.L.userPositions[sender][symbol] IN
              IF (pos.supplied * asset.collateralFactor) \div 10000 < pos.borrowed
              THEN Res("Health factor too low", L)
              ELSE AtCall(r.L, amount, 0)

\* supply without the nonReentrant modifier.
supply_unguarded(L, st, t, sender, symbol, amount) ==
    LET asset == L.assets[symbol] IN
    IF ~asset.isActive THEN Res("Asset not active", L)
    ELSE IF ~(amount > 0) THEN Res("Amount must be greater than 0", L)
    ELSE LET r == _updateInterest(L, t, symbol, sender) IN
         IF r.err # OK THEN Res(r.err, L)
         ELSE AtCall(r.L, amount, 0)

\* supply, up to token.transferFrom(msg.sender, address(this), amount).
supply(L, st, t, sender, symbol, amount) ==
    LET asset == L.assets[symbol] IN
    IF ~nonReentrant(st) THEN Res(REENTRANT, L)
    ELSE IF ~asset.isActive THEN Res("Asset not active", L)
    ELSE IF ~(amount > 0) THEN Res("Amount must be greater than 0", L)
    ELSE LET r == _updateInterest(L, t, symbol, sender) IN
         IF r.err # OK THEN Res(r.err, L)
         ELSE AtCall(r.L, amount, 0)

\* The rest of supply crediting the sender's position on every symbol.
supplyAfterTransfer_everySymbol(L, sender, symbol, amount) ==
    LET position == L.userPositions[sender][symbol]
        asset == L.assets[symbol]
    IN
    IF ~AddOk(position.supplied, amount) THEN Res(PANIC, L)
    ELSE IF ~AddOk(asset.totalSupplied, amount) THEN Res(PANIC, L)
    ELSE Res(OK, [L EXCEPT
            !.userPositions[sender] =
                [s \in Symbols |-> [@[s] EXCEPT !.supplied = @ + amount]],
            !.assets[symbol].totalSupplied = @ + amount])

\* The rest of supply crediting the position only.
supplyAfterTransfer_positionOnly(L, sender, symbol, amount) ==
    LET position == L.userPositions[sender][symbol] IN
    IF ~AddOk(position.supplied, amount) THEN Res(PANIC, L)
    ELSE Res(OK, [L EXCEPT !.userPositions[sender][symbol].supplied = @ + amount])

\* supply, after transferFrom returned true.
supplyAfterTransfer(L, sender, symbol, amount) ==
    IF ~AddOk(L.userPositions[sender][symbol].supplied, amount) THEN Res(PANIC, L)
    ELSE IF ~AddOk(L.assets[symbol].totalSupplied, amount) THEN Res(PANIC, L)
    ELSE Res(OK, [L EXCEPT
            !.userPositions[sender][symbol].supplied = @ + amount,
            !.assets[symbol].totalSupplied = @ + amount])

\* withdraw that keeps the accrued interest when the health check fails.
withdraw_keepsAccrual(L, st, ans, t, sender, symbol, amount) ==
    LET asset == L.assets[symbol]
        position == L.userPositions[sender][symbol]
    IN
    IF ~nonReentrant(st) THEN Res(REENTRANT, L)
    ELSE IF ~asset.isActive THEN Res("Asset not active", L)
    ELSE IF ~(amount > 0) THEN Res("Amount must be greater than 0", L)
    ELSE IF ~(position.supplied >= amount) THEN Res("Insufficient balance", L)
    ELSE LET r == _updateInterest(L, t, symbol, sender) IN
         IF r.err # OK THEN Res(r.err, L)
         ELSE LET pos == r.L.userPositions[sender][symbol] IN
              IF ~SubOk(pos.supplied, amount) THEN Res(PANIC, L)
              ELSE LET newSupplied == pos.supplied - amount
                       h == _checkHealthFactor(r.L, ans, symbol, sender, newSupplied, pos.borrowed)
                   IN IF h.err # OK THEN Res(h.err, L)
                      ELSE IF ~h.val THEN Res("Health factor too low", r.L)
                      ELSE IF ~SubOk(r.L.assets[symbol].totalSupplied, amount) THEN Res(PANIC, L)
                      ELSE AtCall([r.L EXCEPT
                               !.userPositions[sender][symbol].supplied = newSupplied,
                               !.assets[symbol].totalSupplied = @ - amount], amount, 0)

\* withdraw that checks the health of the balance before the withdrawal.
withdraw_checksOldBalance(L, st, ans, t, sender, symbol, amount) ==
    LET asset == L.assets[symbol]
        position == L.userPositions[sender][symbol]
    IN
    IF ~nonReentrant(st) THEN Res(REENTRANT, L)
    ELSE IF ~asset.isActive THEN Res("Asset not active", L)
    ELSE IF ~(amount > 0) THEN Res("Amount must be greater than 0", L)
    ELSE IF ~(position.supplied >= amount) THEN Res("Insufficient balance", L)
    ELSE LET r == _updateInterest(L, t, symbol, sender) IN
         IF r.err # OK THEN Res(r.err, L)
         ELSE LET pos == r.L.userPositions[sender][symbol] IN
              IF ~SubOk(pos.supplied, amount) THEN Res(PANIC, L)
              ELSE LET newSupplied == pos.supplied - amount
                       h == _checkHealthFactor(r.L, ans, symbol, sender, pos.supplied, pos.borrowed)
                   IN IF h.err # OK THEN Res(h.err, L)
                      ELSE IF ~h.val THEN Res("Health factor too low", L)
                      ELSE IF ~SubOk(r.L.assets[symbol].totalSupplied, amount) THEN Res(PANIC, L)
                      ELSE AtCall([r.L EXCEPT
                               !.userPositions[sender][symbol].supplied = newSupplied,
                               !.assets[symbol].totalSupplied = @ - amount], amount, 0)

\* withdraw that reduces totalSupplied only after the transfer.
withdraw_totalAfterTransfer(L, st, ans, t, sender, symbol, amount) ==
    LET asset == L.assets[symbol]
        position == L.userPositions[sender][symbol]
    IN
    IF ~nonReentrant(st) THEN Res(REENTRANT, L)
    ELSE IF ~asset.isActive THEN Res("Asset not active", L)
    ELSE IF ~(amount > 0) THEN Res("Amount must be greater than 0", L)
    ELSE IF ~(position.supplied >= amount) THEN Res("Insufficient balance", L)
    ELSE LET r == _updateInterest(L, t, symbol, sender) IN
         IF r.err # OK THEN Res(r.err, L)
         ELSE LET pos == r.L.userPositions[sender][symbol] IN
              IF ~SubOk(pos.supplied, amount) THEN Res(PANIC, L)
              ELSE LET newSupplied == pos.supplied - amount
                       h == _checkHealthFactor(r.L, ans, symbol, sender, newSupplied, pos.borrowed)
                   IN IF h.err # OK THEN Res(h.err, L)
                      ELSE IF ~h.val THEN Res("Health factor too low", L)
                      ELSE AtCall([r.L EXCEPT
                               !.userPositions[sender][symbol].supplied = newSupplied],
                               amount, 0)

\* withdraw, up to token.transfer(msg.sender, amount).
withdraw(L, st, ans, t, sender, symbol, amount) ==
    LET asset == L.assets[symbol]
        position == L.userPositions[sender][symbol]
    IN
    IF ~nonReentrant(st) THEN Res(REENTRANT, L)
    ELSE IF ~asset.isActive THEN Res("Asset not active", L)
    ELSE IF ~(amount > 0) THEN Res("Amount must be greater than 0", L)
    ELSE IF ~(position.supplied >= amount) THEN Res("Insufficient balance", L)
    ELSE LET r == _updateInterest(L, t, symbol, sender) IN
         IF r.err # OK THEN Res(r.err, L)
         ELSE LET pos == r.L.userPositions[sender][symbol] IN
              IF ~SubOk(pos.supplied, amount) THEN Res(PANIC, L)
              ELSE LET newSupplied == pos.supplied - amount
                       h == _checkHealthFactor(r.L, ans, symbol, sender, newSupplied, pos.borrowed)
                   IN IF h.err # OK THEN Res(h.err, L)
                      ELSE IF ~h.val THEN Res("Health factor too low", L)
                      ELSE IF ~SubOk(r.L.assets[symbol].totalSupplied, amount) THEN Res(PANIC, L)
                      ELSE AtCall([r.L EXCEPT
                               !.userPositions[sender][symbol].supplied = newSupplied,
                               !.assets[symbol].totalSupplied = @ - amount], amount, 0)

\* borrow that checks the health of the debt before the new loan.
borrow_checksOldDebt(L, st, ans, t, sender, symbol, amount) ==
    LET asset == L.assets[symbol] IN
    IF ~nonReentrant(st) THEN Res(REENTRANT, L)
    ELSE IF ~asset.isActive THEN Res("Asset not active", L)
    ELSE IF ~(amount > 0) THEN Res("Amount must be greater than 0", L)
    ELSE IF ~SubOk(asset.totalSupplied, asset.totalBorrowed) THEN Res(PANIC, L)
    ELSE IF ~(asset.totalSupplied - asset.totalBorrowed >= amount)
         THEN Res("Insufficient liquidity", L)
    ELSE LET r == _updateInterest(L, t, symbol, sender) IN
         IF r.err # OK THEN Res(r.err, L)
         ELSE LET position == r.L.userPositions[sender][symbol] IN
              IF ~AddOk(position.borrowed, amount) THEN Res(PANIC, L)
              ELSE LET h == _checkHealthFactor(r.L, ans, symbol, sender,
                                               position.supplied, position.borrowed)
                   IN IF h.err # OK THEN Res(h.err, L)
                      ELSE IF ~h.val THEN Res("Health factor too low", L)
                      ELSE IF ~AddOk(r.L.assets[symbol].totalBorrowed, amount) THEN Res(PANIC, L)
                      ELSE AtCall([r.L EXCEPT
                               !.userPositions[sender][symbol].borrowed = @ + amount,
                               !.assets[symbol].totalBorrowed = @ + amount], amount, 0)

\* borrow, up to token.transfer(msg.sender, amount).
borrow(L, st, ans, t, sender, symbol, amount) ==
    LET asset == L.assets[symbol] IN
    IF ~nonReentrant(st) THEN Res(REENTRANT, L)
    ELSE IF ~asset.isActive THEN Res("Asset not active", L)
    ELSE IF ~(amount > 0) THEN Res("Amount must be greater than 0", L)
    ELSE IF ~SubOk(asset.totalSupplied, asset.totalBorrowed) THEN Res(PANIC, L)
    ELSE IF ~(asset.totalSupplied - asset.totalBorrowed >= amount)
         THEN Res("Insufficient liquidity", L)
    ELSE LET r == _updateInterest(L, t, symbol, sender) IN
         IF r.err # OK THEN Res(r.err, L)
         ELSE LET position == r.L.userPositions[sender][symbol] IN
              IF ~AddOk(position.borrowed, amount) THEN Res(PANIC, L)
              ELSE LET h == _checkHealthFactor(r.L, ans, symbol, sender,
                                               position.supplied, position.borrowed + amount)
                   IN IF h.err # OK THEN Res(h.err, L)
                      ELSE IF ~h.val THEN Res("Health factor too low", L)
                      ELSE IF ~AddOk(r.L.assets[symbol].totalBorrowed, amount) THEN Res(PANIC, L)
                      ELSE AtCall([r.L EXCEPT
                               !.userPositions[sender][symbol].borrowed = @ + amount,
                               !.assets[symbol].totalBorrowed = @ + amount], amount, 0)

\* repay that does not cap the amount at the debt.
repay_uncapped(L, st, t, sender, symbol, amount) ==
    LET asset == L.assets[symbol]
        position == L.userPositions[sender][symbol]
    IN
    IF ~nonReentrant(st) THEN Res(REENTRANT, L)
    ELSE IF ~asset.isActive THEN Res("Asset not active", L)
    ELSE IF ~(amount > 0) THEN Res("Amount must be greater than 0", L)
    ELSE IF ~(position.borrowed > 0) THEN Res("No outstanding loan", L)
    ELSE LET r == _updateInterest(L, t, symbol, sender) IN
         IF r.err # OK THEN Res(r.err, L)
         ELSE AtCall(r.L, amount, 0)

\* repay, up to token.transferFrom(msg.sender, address(this), repayAmount).
repay(L, st, t, sender, symbol, amount) ==
    LET asset == L.assets[symbol]
        position == L.userPositions[sender][symbol]
    IN
    IF ~nonReentrant(st) THEN Res(REENTRANT, L)
    ELSE IF ~asset.isActive THEN Res("Asset not active", L)
    ELSE IF ~(amount > 0) THEN Res("Amount must be greater than 0", L)
    ELSE IF ~(position.borrowed > 0) THEN Res("No outstanding loan", L)
    ELSE LET r == _updateInterest(L, t, symbol, sender) IN
         IF r.err # OK THEN Res(r.err, L)
         ELSE LET pos == r.L.userPositions[sender][symbol]
                  repayAmount == IF amount > pos.borrowed THEN pos.borrowed ELSE amount
              IN AtCall(r.L, repayAmount, 0)

\* The rest of repay debiting the position only.
repayAfterTransfer_positionOnly(L, sender, symbol, repayAmount) ==
    IF ~SubOk(L.userPositions[sender][symbol].borrowed, repayAmount) THEN Res(PANIC, L)
    ELSE Res(OK, [L EXCEPT
            !.userPositions[sender][symbol].borrowed = @ - repayAmount])

\* repay, after transferFrom returned true.
repayAfterTransfer(L, sender, symbol, repayAmount) ==
    IF ~SubOk(L.userPositions[sender][symbol].borrowed, repayAmount) THEN Res(PANIC, L)
    ELSE IF ~SubOk(L.assets[symbol].totalBorrowed, repayAmount) THEN Res(PANIC, L)
    ELSE Res(OK, [L EXCEPT
            !.userPositions[sender][symbol].borrowed = @ - repayAmount,
            !.assets[symbol].totalBorrowed = @ - repayAmount])

\* collateralToSeize with a bonus of 50% in place of 10%.
collateralToSeize_halfBonus(liquidationAmount, assetPrice) ==
    IF ~MulOk(liquidationAmount, assetPrice) THEN Val(PANIC, 0)
    ELSE IF ~MulOk(liquidationAmount * assetPrice, 15000) THEN Val(PANIC, 0)
    ELSE IF ~MulOk(assetPrice, 10000) THEN Val(PANIC, 0)
    ELSE Val(OK, (liquidationAmount * assetPrice * 15000) \div (assetPrice * 10000))

\* collateralToSeize whose divisor lacks the price.
collateralToSeize_undividedPrice(liquidationAmount, assetPrice) ==
    IF ~MulOk(liquidationAmount, assetPrice) THEN Val(PANIC, 0)
    ELSE IF ~MulOk(liquidationAmount * assetPrice, 11000) THEN Val(PANIC, 0)
    ELSE Val(OK, (liquidationAmount * assetPrice * 11000) \div 10000)

\* (liquidationAmount * assetPrice * 11000) / (assetPrice * 10000)
collateralToSeize(liquidationAmount, assetPrice) ==
    IF ~MulOk(liquidationAmount, assetPrice) THEN Val(PANIC, 0)
    ELSE IF ~MulOk(liquidationAmount * assetPrice, 11000) THEN Val(PANIC, 0)
    ELSE IF ~MulOk(assetPrice, 10000) THEN Val(PANIC, 0)
    ELSE IF assetPrice * 10000 = 0 THEN Val(PANIC, 0)
    ELSE Val(OK, (liquidationAmount * assetPrice * 11000) \div (assetPrice * 10000))

\* liquidate, up to token.transferFrom(msg.sender, address(this), liquidationAmount).
liquidate(L, st, ans, t, sender, borrower, symbol, amount) ==
    LET asset == L.assets[symbol]
        position == L.userPositions[borrower][symbol]
    IN
    IF ~nonReentrant(st) THEN Res(REENTRANT, L)
    ELSE IF ~asset.isActive THEN Res("Asset not active", L)
    ELSE IF ~(amount > 0) THEN Res("Amount must be greater than 0", L)
    ELSE IF ~(position.borrowed > 0) THEN Res("No outstanding loan", L)
    ELSE LET r == _updateInterest(L, t, symbol, borrower) IN
         IF r.err # OK THEN Res(r.err, L)
         ELSE LET h == _isHealthy(r.L, ans, symbol, borrower) IN
              IF h.err # OK THEN Res(h.err, L)
              ELSE IF ~(~h.val) THEN Res("Position is healthy", L)
              ELSE LET pos == r.L.userPositions[borrower][symbol]
                       liquidationAmount ==
                           IF amount > pos.borrowed THEN pos.borrowed ELSE amount
                       assetPrice == getAssetPrice(r.L, ans, symbol)
                   IN IF assetPrice.err # OK THEN Res(assetPrice.err, L)
                      ELSE LET seize == collateralToSeize(liquidationAmount, assetPrice.val) IN
                           IF seize.err # OK THEN Res(seize.err, L)
                           ELSE IF ~(seize.val <= pos.supplied)
                                THEN Res("Insufficient collateral", L)
                           ELSE AtCall(r.L, liquidationAmount, seize.val)

\* liquidate, after transferFrom returned true, up to
\* token.transfer(msg.sender, collateralToSeize).
liquidateAfterTransfer(L, borrower, symbol, liquidationAmount, seize) ==
    IF ~SubOk(L.userPositions[borrower][symbol].borrowed, liquidationAmount) THEN Res(PANIC, L)
    ELSE IF ~SubOk(L.userPositions[borrower][symbol].supplied, seize) THEN Res(PANIC, L)
    ELSE IF ~SubOk(L.assets[symbol].totalBorrowed, liquidationAmount) THEN Res(PANIC, L)
    ELSE IF ~SubOk(L.assets[symbol].totalSupplied, seize) THEN Res(PANIC, L)
    ELSE AtCall([L EXCEPT
            !.userPositions[borrower][symbol].borrowed = @ - liquidationAmount,
            !.userPositions[borrower][symbol].supplied = @ - seize,
            !.assets[symbol].totalBorrowed = @ - liquidationAmount,
            !.assets[symbol].totalSupplied = @ - seize], liquidationAmount, seize)

\* The rest of a handler once the token call it waits in has returned true.
afterTransfer(L, f) ==
    CASE f.op = "supply" -> supplyAfterTransfer(L, f.sender, f.symbol, f.amount)
      [] f.op = "repay" -> repayAfterTransfer(L, f.sender, f.symbol, f.amount)
      [] f.op = "liquidate" /\ f.stage = 1 ->
            liquidateAfterTransfer(L, f.user, f.symbol, f.amount, f.seize)
      [] OTHER -> Res(OK, L)

\* The message of the require around the token call the handler waits in.
transferFailed(f) ==
    IF f.op = "liquidate" /\ f.stage = 2 THEN "Collateral transfer failed"
    ELSE "Transfer failed"

\* ------------------------------------------------------------ the actions

NoCall == [op |-> "none", user |-> "none", symbol |-> "none", amount |-> 0, err |-> OK]

\* The outcome of a call: user is the account whose position the call is on.
Outcome(op, user, symbol, amount, err) ==
    [op |-> op, user |-> user, symbol |-> symbol, amount |-> amount, err |-> err]

Init ==
    /\ assets = EmptyLedger.assets
    /\ assetSymbols = <<>>
    /\ userPositions = EmptyLedger.userPositions
    /\ status = NOT_ENTERED
    /\ now = 1
    /\ answer = [f \in FeedAddresses |-> 1]
    /\ frame = NoFrame
    /\ last = NoCall
    /\ ntx = 0

Idle == frame = NoFrame

\* A call of an owner function: it runs to its end in one step.
AddAsset(caller, symbol, tokenAddress, priceFeedAddress, p) ==
    /\ Idle /\ last = NoCall
    /\ LET r == addAsset(Ledger, caller, symbol, tokenAddress, priceFeedAddress, p) IN
       /\ ntx < MaxTx \/ r.err # OK
       /\ assets' = r.L.assets
       /\ userPositions' = r.L.userPositions
       /\ assetSymbols' = IF r.err = OK THEN Append(assetSymbols, symbol) ELSE assetSymbols
       /\ last' = Outcome("addAsset", caller, symbol, 0, r.err)
       /\ ntx' = IF r.err = OK THEN ntx + 1 ELSE ntx
    /\ UNCHANGED <<status, now, answer, frame>>

UpdateAsset(caller, symbol, p, isActive) ==
    /\ Idle /\ last = NoCall
    /\ LET r == updateAsset(Ledger, caller, symbol, p, isActive) IN
       /\ ntx < MaxTx \/ r.err # OK
       /\ assets' = r.L.assets
       /\ userPositions' = r.L.userPositions
       /\ last' = Outcome("updateAsset", caller, symbol, 0, r.err)
       /\ ntx' = IF r.err = OK THEN ntx + 1 ELSE ntx
    /\ UNCHANGED <<assetSymbols, status, now, answer, frame>>

\* A call of a guarded function runs up to its first token call (the frame
\* records where it waits) or reverts.  Made while another guarded function
\* waits in a token call, it is a nested call made by that token.
Enter(op, r, sender, user, symbol, amount) ==
    /\ last = NoCall
    /\ ntx < MaxTx \/ r.err # CALL
    /\ assets' = r.L.assets
    /\ userPositions' = r.L.userPositions
    /\ IF r.err = CALL
       THEN /\ status' = ENTERED
            /\ frame' = [op |-> op, sender |-> sender, user |-> user, symbol |-> symbol,
                         arg |-> amount, amount |-> r.amount, seize |-> r.seize,
                         stage |-> 1, saved |-> Ledger]
            /\ last' = last
       ELSE /\ last' = Outcome(op, user, symbol, amount, r.err)
            /\ UNCHANGED <<status, frame>>
    /\ UNCHANGED <<assetSymbols, now, answer, ntx>>

Supply(sender, symbol, amount) ==
    /\ assets[symbol].totalSupplied + amount <= MaxSupply
    /\ Enter("supply", supply(Ledger, status, now, sender, symbol, amount),
             sender, sender, symbol, amount)

Withdraw(sender, symbol, amount) ==
    Enter("withdraw", withdraw(Ledger, status, answer, now, sender, symbol, amount),
          sender, sender, symbol, amount)

Borrow(sender, symbol, amount) ==
    Enter("borrow", borrow(Ledger, status, answer, now, sender, symbol, amount),
          sender, sender, symbol, amount)

Repay(sender, symbol, amount) ==
    Enter("repay", repay(Ledger, status, now, sender, symbol, amount),
          sender, sender, symbol, amount)

Liquidate(sender, borrower, symbol, amount) ==
    Enter("liquidate",
          liquidate(Ledger, status, answer, now, sender, borrower, symbol, amount),
          sender, borrower, symbol, amount)

\* The token call returns true and the handler goes on, to its next token
\* call or to its end.  A token at the null address has no code: calling it
\* reverts.
TransferReturns ==
    /\ ~Idle /\ last = NoCall
    /\ assets[frame.symbol].tokenAddress # NullAddress
    /\ LET r == afterTransfer(Ledger, frame) IN
       IF r.err = CALL
       THEN /\ assets' = r.L.assets
            /\ userPositions' = r.L.userPositions
            /\ frame' = [frame EXCEPT !.stage = @ + 1]
            /\ UNCHANGED <<status, last, ntx>>
       ELSE /\ assets' = (IF r.err = OK THEN r.L ELSE frame.saved).assets
            /\ userPositions' = (IF r.err = OK THEN r.L ELSE frame.saved).userPositions
            /\ status' = NOT_ENTERED
            /\ frame' = NoFrame
            /\ last' = Outcome(frame.op, frame.user, frame.symbol, frame.arg, r.err)
            /\ ntx' = IF r.err = OK THEN ntx + 1 ELSE ntx
    /\ UNCHANGED <<assetSymbols, now, answer>>

\* The token call returns false or reverts: the transaction reverts.
TransferFails ==
    /\ ~Idle /\ last = NoCall
    /\ assets' = frame.saved.assets
    /\ userPositions' = frame.saved.userPositions
    /\ status' = NOT_ENTERED
    /\ frame' = NoFrame
    /\ last' = Outcome(frame.op, frame.user, frame.symbol, frame.arg, transferFailed(frame))
    /\ UNCHANGED <<assetSymbols, now, answer, ntx>>

\* The caller has read the outcome of its call.
Observe ==
    /\ last # NoCall
    /\ last' = NoCall
    /\ UNCHANGED <<assets, assetSymbols, userPositions, status, now, answer, frame, ntx>>

\* A later block.
Tick ==
    /\ Idle /\ last = NoCall
    /\ ntx < MaxTx
    /\ now' = now + 1
    /\ ntx' = ntx + 1
    /\ UNCHANGED <<assets, assetSymbols, userPositions, status, answer, frame, last>>

\* The feed reports a new answer.
SetAnswer(feed, a) ==
    /\ Idle /\ last = NoCall
    /\ ntx < MaxTx
    /\ a # answer[feed]
    /\ answer' = [answer EXCEPT ![feed] = a]
    /\ ntx' = ntx + 1
    /\ UNCHANGED <<assets, assetSymbols, userPositions, status, now, frame, last>>

Next ==
    \/ \E s \in Traded, c \in AddChoices : AddAsset(c[1], s, c[2], c[3], c[4])
    \/ \E s \in Traded, c \in UpdateChoices : UpdateAsset(c[1], s, c[2], c[3])
    \/ \E u \in Accounts, s \in Traded, a \in Amounts : Supply(u, s, a)
    \/ \E u \in Accounts, s \in Traded, a \in Amounts : Withdraw(u, s, a)
    \/ \E u \in Accounts, s \in Traded, a \in Amounts : Borrow(u, s, a)
    \/ \E u \in Accounts, s \in Traded, a \in Amounts : Repay(u, s, a)
    \/ \E u \in Accounts, b \in Accounts, s \in Traded, a \in Amounts : Liquidate(u, b, s, a)
    \/ TransferReturns
    \/ TransferFails
    \/ Observe
    \/ Tick
    \/ \E f \in FeedAddresses, a \in Answers : SetAnswer(f, a)

Spec == Init /\ [][Next]_vars

\* (supplied, borrowed) of a single position holding all of an asset, from
\* small balances to balances near the top of the word.
LargeBalances ==
    { <<10, 7>>, <<8, 7>>, <<11, 10>>, <<16, 14>>,
      <<1000, 700>>, <<300000, 7>>, <<0, 300000>>, <<MaxUint - 3, 0>> }

\* The contract some time into its life: ETH is registered, alice holds
\* the asset's only position, last updated at time 1, and MaxTx - 2 steps
\* have been taken.
InitLarge ==
    /\ \E p \in {P1, P2}, b \in LargeBalances :
         /\ assets = [EmptyLedger.assets EXCEPT !["ETH"] =
                [tokenAddress |-> 1, priceFeedAddress |-> 1,
                 collateralFactor |-> p.collateralFactor,
                 borrowFactor |-> p.borrowFactor,
                 liquidationThreshold |-> p.liquidationThreshold,
                 totalSupplied |-> b[1], totalBorrowed |-> b[2],
                 supplyInterestRate |-> p.supplyInterestRate,
                 borrowInterestRate |-> p.borrowInterestRate,
                 isActive |-> TRUE]]
         /\ userPositions = [EmptyLedger.userPositions EXCEPT !["alice"]["ETH"] =
                [supplied |-> b[1], borrowed |-> b[2], lastUpdateTimestamp |-> 1]]
    /\ assetSymbols = <<"ETH">>
    /\ status = NOT_ENTERED
    /\ now \in {1, 2}
    /\ answer = [f \in FeedAddresses |-> 1]
    /\ frame = NoFrame
    /\ last = NoCall
    /\ ntx = MaxTx - 2

SpecLarge == InitLarge /\ [][Next]_vars

\* The contract with two assets in use: ETH and DAI are registered, each
\* account holds positions on both, last updated at time 1, and MaxTx - 2
\* steps have been taken.
InitTwo ==
    /\ assets = [s \in Symbols |->
          IF s = "ETH"
          THEN [tokenAddress |-> 1, priceFeedAddress |-> 1,
                collateralFactor |-> P1.collateralFactor,
                borrowFactor |-> P1.borrowFactor,
                liquidationThreshold |-> P1.liquidationThreshold,
                totalSupplied |-> 10, totalBorrowed |-> 7,
                supplyInterestRate |-> P1.supplyInterestRate,
                borrowInterestRate |-> P1.borrowInterestRate,
                isActive |-> TRUE]
          ELSE [tokenAddress |-> 1, priceFeedAddress |-> 1,
                collateralFactor |-> P2.collateralFactor,
                borrowFactor |-> P2.borrowFactor,
                liquidationThreshold |-> P2.liquidationThreshold,
                totalSupplied |-> 14, totalBorrowed |-> 0,
                supplyInterestRate |-> P2.supplyInterestRate,
                borrowInterestRate |-> P2.borrowInterestRate,
                isActive |-> TRUE]]
    /\ userPositions = [u \in Accounts |-> [s \in Symbols |->
          IF s = "ETH"
          THEN (IF u = "alice"
                THEN [supplied |-> 10, borrowed |-> 7, lastUpdateTimestamp |-> 1]
                ELSE [supplied |-> 0, borrowed |-> 0, lastUpdateTimestamp |-> 1])
          ELSE [supplied |-> 7, borrowed |-> 0, lastUpdateTimestamp |-> 1]]]
    /\ assetSymbols = <<"ETH", "DAI">>
    /\ status = NOT_ENTERED
    /\ now \in {1, 2}
    /\ answer = [f \in FeedAddresses |-> 1]
    /\ frame = NoFrame
    /\ last = NoCall
    /\ ntx = MaxTx - 2

\* The steps of Next, the calls made on every symbol.
NextTwo ==
    \/ \E s \in Symbols, c \in AddChoices : AddAsset(c[1], s, c[2], c[3], c[4])
    \/ \E s \in Symbols, c \in UpdateChoices : UpdateAsset(c[1], s, c[2], c[3])
    \/ \E u \in Accounts, s \in Symbols, a \in Amounts : Supply(u, s, a)
    \/ \E u \in Accounts, s \in Symbols, a \in Amounts : Withdraw(u, s, a)
    \/ \E u \in Accounts, s \in Symbols, a \in Amounts : Borrow(u, s, a)
    \/ \E u \in Accounts, s \in Symbols, a \in Amounts : Repay(u, s, a)
    \/ \E u \in Accounts, b \in Accounts, s \in Symbols, a \in Amounts : Liquidate(u, b, s, a)
    \/ TransferReturns
    \/ TransferFails
    \/ Observe
    \/ Tick
    \/ \E f \in FeedAddresses, a \in Answers : SetAnswer(f, a)

SpecTwo == InitTwo /\ [][NextTwo]_vars

\* ------------------------------------------------------------- the claims

\* Properties of what a call would do are stated of the states where a call
\* can be made (last = NoCall): Observe leads to such a state from every
\* other state and leaves the storage, the lock, the clock and the feed
\* unchanged.

GuardedOps == {"supply", "withdraw", "borrow", "repay", "liquidate"}

Pos(u, s) == userPositions[u][s]

\* The feed's answer for the asset, scaled as getAssetPrice scales it.
PriceOf(ans, s) == ans[assets[s].priceFeedAddress] * PriceScale

PriceAvailable(ans, s) ==
    /\ assets[s].tokenAddress # NullAddress
    /\ assets[s].priceFeedAddress \in DOMAIN ans
    /\ ans[assets[s].priceFeedAddress] > 0

\* floor(supplied * price * bps / 10000) >= borrowed * price, in the integers.
LimitHolds(supplied, borrowed, price, bps) ==
    (supplied * price * bps) \div 10000 >= borrowed * price

\* The products of the limit fit the word.
Fits(supplied, borrowed, price, bps) ==
    /\ supplied * price * bps <= MaxUint
    /\ borrowed * price <= MaxUint

\* The call that just ended.
Ended(op, err) == last.op = op /\ last.err = err

\* C1: for every asset, after any sequence of calls, totalSupplied >=
\* totalBorrowed.
C1_TotalSuppliedCoversBorrowed ==
    Idle => \A s \in Symbols : assets[s].totalSupplied >= assets[s].totalBorrowed

\* C2: a failing call of supply, withdraw, borrow, repay or liquidate leaves
\* assets, userPositions and assetSymbols as they were before the call, the
\* interest accrued at the start of the call included.  A call that reverts
\* before its token call, and a nested call, leave the storage of the step;
\* a call that reverts in or after its token call leaves the storage it
\* started from, which the frame holds from the start of the call on.
C2_FailedCallChangesNothing ==
    [][ /\ (last = NoCall /\ last' # NoCall /\ last'.err # OK /\ last'.op \in GuardedOps)
            => /\ assetSymbols' = assetSymbols
               /\ Ledger' = (IF ~Idle /\ Idle' THEN frame.saved ELSE Ledger)
        /\ (Idle /\ ~Idle') => frame'.saved = Ledger
        /\ (~Idle /\ ~Idle') => frame'.saved = frame.saved ]_vars

\* A withdraw has failed its health check at a time when interest was due on
\* the position.
C2_Witness ==
    /\ Ended("withdraw", "Health factor too low")
    /\ Pos(last.user, last.symbol).borrowed > 0
    /\ Pos(last.user, last.symbol).lastUpdateTimestamp \in 1..(now - 1)
    /\ assets[last.symbol].borrowInterestRate > 0

\* C3: after every successful borrow the borrower's position satisfies
\* floor(supplied * price * collateralFactor / 10000) >= borrowed * price,
\* at the token call of the borrow and when the borrow has ended.
C3_BorrowStaysWithinCollateralFactor ==
    /\ frame.op = "borrow" =>
         LimitHolds(Pos(frame.user, frame.symbol).supplied,
                    Pos(frame.user, frame.symbol).borrowed,
                    PriceOf(answer, frame.symbol), assets[frame.symbol].collateralFactor)
    /\ Ended("borrow", OK) =>
         LimitHolds(Pos(last.user, last.symbol).supplied,
                    Pos(last.user, last.symbol).borrowed,
                    PriceOf(answer, last.symbol), assets[last.symbol].collateralFactor)

\* A borrow has succeeded and left a debt.
C3_Witness ==
    /\ Ended("borrow", OK)
    /\ Pos(last.user, last.symbol).borrowed >= last.amount
    /\ last.amount > 0

\* C4: a withdraw that passes the checks before the health check (asset
\* active, amount > 0, amount <= supplied) on a position with debt fails
\* with "Health factor too low", changing nothing, whenever the limit under
\* collateralFactor is false for (supplied - amount, borrowed) after accrual;
\* and after every successful withdraw the position has no debt or is within
\* the limit.
C4_WithdrawKeepsCollateralFactor ==
    /\ \A u \in Accounts, s \in Symbols, a \in Amounts :
         LET acc == _updateInterest(Ledger, now, s, u)
             pos == acc.L.userPositions[u][s]
             r == withdraw(Ledger, status, answer, now, u, s, a)
         IN ( /\ last = NoCall
              /\ status = NOT_ENTERED
              /\ assets[s].isActive
              /\ a > 0
              /\ Pos(u, s).supplied >= a
              /\ acc.err = OK
              /\ pos.borrowed > 0
              /\ PriceAvailable(answer, s)
              /\ Fits(pos.supplied - a, pos.borrowed, PriceOf(answer, s),
                      assets[s].collateralFactor)
              /\ ~LimitHolds(pos.supplied - a, pos.borrowed, PriceOf(answer, s),
                             assets[s].collateralFactor) )
            => (r.err = "Health factor too low" /\ r.L = Ledger)
    /\ frame.op = "withdraw" =>
         \/ Pos(frame.user, frame.symbol).borrowed = 0
         \/ LimitHolds(Pos(frame.user, frame.symbol).supplied,
                       Pos(frame.user, frame.symbol).borrowed,
                       PriceOf(answer, frame.symbol), assets[frame.symbol].collateralFactor)
    /\ Ended("withdraw", OK) =>
         \/ Pos(last.user, last.symbol).borrowed = 0
         \/ LimitHolds(Pos(last.user, last.symbol).supplied,
                       Pos(last.user, last.symbol).borrowed,
                       PriceOf(answer, last.symbol), assets[last.symbol].collateralFactor)

\* A withdraw on a position with debt has failed its health check.
C4_Witness ==
    /\ Ended("withdraw", "Health factor too low")
    /\ Pos(last.user, last.symbol).borrowed > 0
    /\ Pos(last.user, last.symbol).supplied >= last.amount

\* C5: a liquidate on a position that after accrual satisfies
\* floor(supplied * price * liquidationThreshold / 10000) >= borrowed * price
\* fails and changes nothing, with "Position is healthy" when it passes the
\* checks before the health check (asset active, amount > 0, debt > 0); no
\* liquidation reaches its token calls against such a position.
C5_HealthyPositionIsNotLiquidated ==
    /\ \A u \in Accounts, b \in Accounts, s \in Symbols, a \in Amounts :
         LET acc == _updateInterest(Ledger, now, s, b)
             pos == acc.L.userPositions[b][s]
             r == liquidate(Ledger, status, answer, now, u, b, s, a)
         IN ( /\ last = NoCall
              /\ acc.err = OK
              /\ PriceAvailable(answer, s)
              /\ LimitHolds(pos.supplied, pos.borrowed, PriceOf(answer, s),
                            assets[s].liquidationThreshold) )
            => /\ r.err # CALL
               /\ r.L = Ledger
               /\ ( /\ status = NOT_ENTERED
                    /\ assets[s].isActive
                    /\ a > 0
                    /\ Pos(b, s).borrowed > 0
                    /\ Fits(pos.supplied, pos.borrowed, PriceOf(answer, s),
                            assets[s].liquidationThreshold) )
                  => r.err = "Position is healthy"
    /\ (frame.op = "liquidate" /\ frame.stage = 1) =>
         ~LimitHolds(Pos(frame.user, frame.symbol).supplied,
                     Pos(frame.user, frame.symbol).borrowed,
                     PriceOf(answer, frame.symbol),
                     assets[frame.symbol].liquidationThreshold)

\* A liquidate on a position with debt has failed as healthy.
C5_Witness ==
    /\ Ended("liquidate", "Position is healthy")
    /\ Pos(last.user, last.symbol).borrowed > 0

\* floor(liquidationAmount * 11000 / 10000)
SeizeOf(liquidationAmount) == (liquidationAmount * 11000) \div 10000

\* The position (b, s) after the accrual a call at this time starts with.
Accrued(b, s) == _updateInterest(Ledger, now, s, b).L.userPositions[b][s]

\* A liquidate(b, s, a) made in this state passes every check before the
\* collateral check: it is a top-level call on an active asset with a > 0
\* against a debt that breaches the liquidation threshold after accrual, the
\* price is available and the products fit the word.
ReachesCollateralCheck(b, s, a) ==
    /\ status = NOT_ENTERED
    /\ assets[s].isActive
    /\ a > 0
    /\ Pos(b, s).borrowed > 0
    /\ _updateInterest(Ledger, now, s, b).err = OK
    /\ PriceAvailable(answer, s)
    /\ Fits(Accrued(b, s).supplied, Accrued(b, s).borrowed, PriceOf(answer, s),
            assets[s].liquidationThreshold)
    /\ ~LimitHolds(Accrued(b, s).supplied, Accrued(b, s).borrowed, PriceOf(answer, s),
                   assets[s].liquidationThreshold)
    /\ Min(a, Accrued(b, s).borrowed) * PriceOf(answer, s) * 11000 <= MaxUint
    /\ PriceOf(answer, s) * 10000 <= MaxUint

C7_LiquidationLeavesTotalsCovered ==
    Ended("liquidate", OK) =>
        assets[last.symbol].totalSupplied >= assets[last.symbol].totalBorrowed

\* C8: a repay that reaches its token call has accrued the position and
\* asks the token for min(amount, borrowed after accrual); when it ends it
\* has taken exactly that from position.borrowed and totalBorrowed and
\* nothing else, so the debt is never negative and is 0 when amount exceeded
\* it.
C8_RepayDebitsCappedAmount ==
    [][ /\ (Idle /\ frame'.op = "repay") =>
             LET u == frame'.user
                 s == frame'.symbol
                 acc == _updateInterest(Ledger, now, s, u)
             IN /\ acc.err = OK
                /\ Ledger' = acc.L
                /\ frame'.arg > 0
                /\ frame'.amount = Min(frame'.arg, Accrued(u, s).borrowed)
        /\ (frame.op = "repay" /\ Idle' /\ last'.err = OK) =>
             /\ Ledger' = [Ledger EXCEPT
                    !.userPositions[frame.user][frame.symbol].borrowed = @ - frame.amount,
                    !.assets[frame.symbol].totalBorrowed = @ - frame.amount]
             /\ userPositions'[frame.user][frame.symbol].borrowed >= 0
             /\ frame.arg > Pos(frame.user, frame.symbol).borrowed =>
                    userPositions'[frame.user][frame.symbol].borrowed = 0
      ]_vars

\* A repay of 10 against a debt of 7 has ended and left no debt.
C8_Witness ==
    /\ Ended("repay", OK)
    /\ last.amount = 10
    /\ Pos(last.user, last.symbol).borrowed = 0
    /\ Pos(last.user, last.symbol).supplied = 10
    /\ assets[last.symbol].totalSupplied = 10
    /\ assets[last.symbol].totalBorrowed = 0

\* C9: the lock is held exactly while a guarded function waits in a token
\* call; every nested call of supply, withdraw, borrow, repay or liquidate
\* made then is rejected and leaves the storage alone; and no call made when
\* no function is executing is rejected for re-entrancy, whether the call
\* before it succeeded or failed.
C9_NestedCallsAreRejected ==
    /\ Idle <=> status = NOT_ENTERED
    /\ last.err = REENTRANT => ~Idle
    /\ (~Idle /\ last = NoCall) =>
         \A u \in Accounts, b \in Accounts, s \in Symbols, a \in Amounts :
            /\ supply(Ledger, status, now, u, s, a) = Res(REENTRANT, Ledger)
            /\ withdraw(Ledger, status, answer, now, u, s, a) = Res(REENTRANT, Ledger)
            /\ borrow(Ledger, status, answer, now, u, s, a) = Res(REENTRANT, Ledger)
            /\ repay(Ledger, status, now, u, s, a) = Res(REENTRANT, Ledger)
            /\ liquidate(Ledger, status, answer, now, u, b, s, a) = Res(REENTRANT, Ledger)

\* A nested call has been rejected while a withdraw waits in its transfer.
C9_Witness ==
    /\ frame.op = "withdraw"
    /\ last.err = REENTRANT
    /\ last.op \in GuardedOps

\* C10: while a function waits in a token call, the touched position and
\* the asset's totals have moved by the same amounts since the call began
\* (interest and the operation's change reach both or neither).
C10_NoPartialUpdateAtTokenCall ==
    ~Idle =>
        LET u == frame.user
            s == frame.symbol
            before == frame.saved
        IN /\ Pos(u, s).supplied - before.userPositions[u][s].supplied
                = assets[s].totalSupplied - before.assets[s].totalSupplied
           /\ Pos(u, s).borrowed - before.userPositions[u][s].borrowed
                = assets[s].totalBorrowed - before.assets[s].totalBorrowed

\* A liquidation waits in its second transfer, all four balances updated.
C10_Witness ==
    /\ frame.op = "liquidate"
    /\ frame.stage = 2
    /\ frame.seize > 0
    /\ Pos(frame.user, frame.symbol).supplied
         < frame.saved.userPositions[frame.user][frame.symbol].supplied

\* The symbol has been pushed on assetSymbols: an addAsset for it succeeded.
Registered(s) == \E i \in DOMAIN assetSymbols : assetSymbols[i] = s

\* C11: every registered asset has borrowFactor <= collateralFactor <= 9000
\* and collateralFactor < liquidationThreshold <= 10000.
C11_RiskParametersWithinBounds ==
    \A s \in Symbols :
        Registered(s) =>
            /\ assets[s].borrowFactor <= assets[s].collateralFactor
            /\ assets[s].collateralFactor <= 9000
            /\ assets[s].collateralFactor < assets[s].liquidationThreshold
            /\ assets[s].liquidationThreshold <= 10000

\* C12: a repay with amount > 0 on a position with debt, and a liquidate
\* with amount > 0 on a position with debt, made on a registered asset that
\* is inactive, are not refused for the asset being inactive.
C12_UnwindAllowedWhileInactive ==
    (/\ last.op \in {"repay", "liquidate"}
     /\ Idle
     /\ Registered(last.symbol)
     /\ ~assets[last.symbol].isActive
     /\ last.amount > 0
     /\ Pos(last.user, last.symbol).borrowed > 0)
    => last.err # "Asset not active"

\* C13: an addAsset by the owner for a symbol that is already registered
\* fails with "Asset already exists" and changes nothing, whatever token
\* address the first registration used.
C13_SecondRegistrationFails ==
    \A s \in Symbols, c \in AddChoices :
        (Registered(s) /\ onlyOwner(c[1])) =>
            addAsset(Ledger, c[1], s, c[2], c[3], c[4]) = Res("Asset already exists", Ledger)

\* C14: assetSymbols lists each registered symbol once.
C14_EachSymbolListedOnce ==
    \A i, j \in DOMAIN assetSymbols :
        i # j => assetSymbols[i] # assetSymbols[j]

\* C15: updateAsset by the owner with valid parameters fails with "Asset does
\* not exist" for a symbol that was never registered, and for a registered
\* symbol succeeds, overwrites the factors, the rates and isActive, and
\* leaves the totals, the addresses and every position unchanged.
C15_UpdateAssetOnRegisteredSymbols ==
    \A s \in Symbols, isActive \in BOOLEAN :
        LET r == updateAsset(Ledger, owner, s, P1, isActive) IN
        IF Registered(s)
        THEN /\ r.err = OK
             /\ r.L = [Ledger EXCEPT
                    !.assets[s].collateralFactor = P1.collateralFactor,
                    !.assets[s].borrowFactor = P1.borrowFactor,
                    !.assets[s].liquidationThreshold = P1.liquidationThreshold,
                    !.assets[s].supplyInterestRate = P1.supplyInterestRate,
                    !.assets[s].borrowInterestRate = P1.borrowInterestRate,
                    !.assets[s].isActive = isActive]
        ELSE r = Res("Asset does not exist", Ledger)

\* C16: a top-level withdraw whose amount exceeds the stored supplied
\* balance but not the balance after accrual does not fail with
\* "Insufficient balance".
C16_WithdrawComparesAccruedBalance ==
    \A u \in Accounts, s \in Symbols, a \in Amounts :
        (/\ Idle
         /\ assets[s].isActive
         /\ _updateInterest(Ledger, now, s, u).err = OK
         /\ a > Pos(u, s).supplied
         /\ a <= Accrued(u, s).supplied)
        => withdraw(Ledger, status, answer, now, u, s, a).err # "Insufficient balance"

\* C17: a top-level borrow with amount > 0 on an active asset fails with
\* "Insufficient liquidity" whenever totalSupplied - totalBorrowed < amount,
\* totalBorrowed > totalSupplied included, and never fails so when the
\* difference is at least amount.
C17_BorrowBeyondLiquidityFails ==
    \A u \in Accounts, s \in Symbols, a \in Amounts :
        (Idle /\ assets[s].isActive /\ a > 0) =>
            LET r == borrow(Ledger, status, answer, now, u, s, a) IN
            IF assets[s].totalSupplied - assets[s].totalBorrowed < a
            THEN r = Res("Insufficient liquidity", Ledger)
            ELSE r.err # "Insufficient liquidity"

\* C18: accrual on a position whose lastUpdateTimestamp is unset only sets
\* it to the current time; accrual at the time of the last update changes
\* nothing; and an accrual run again at the same time, after one that
\* succeeded, changes nothing.
C18_AccrualIsIdempotent ==
    \A u \in Accounts, s \in Symbols :
        last = NoCall =>
        LET once == _updateInterest(Ledger, now, s, u) IN
        /\ Pos(u, s).lastUpdateTimestamp = 0 =>
              once = Res(OK, [Ledger EXCEPT !.userPositions[u][s].lastUpdateTimestamp = now])
        /\ Pos(u, s).lastUpdateTimestamp = now => once = Res(OK, Ledger)
        /\ once.err = OK => _updateInterest(once.L, now, s, u) = Res(OK, once.L)

\* A call waits in its token call after an accrual that added a year's
\* interest to a debt first seen a year before.
C18_Witness ==
    /\ ~Idle
    /\ frame.saved.userPositions[frame.user][frame.symbol].lastUpdateTimestamp = 1
    /\ frame.saved.userPositions[frame.user][frame.symbol].borrowed = 7
    /\ Pos(frame.user, frame.symbol).lastUpdateTimestamp = 2
    /\ Pos(frame.user, frame.symbol).borrowed >= 14
    /\ now = 2

\* floor(balance * rate * elapsed / (10000 * 365 days)), in the integers.
InterestDue(balance, rate, elapsed) == (balance * rate * elapsed) \div (10000 * YearTicks)

\* C19: on a position with lastUpdateTimestamp set and earlier than now, an
\* accrual that does not overflow adds InterestDue on the supplied balance
\* to position.supplied and totalSupplied, adds InterestDue on the borrowed
\* balance to position.borrowed and totalBorrowed, sets lastUpdateTimestamp
\* to now and changes nothing else; no lastUpdateTimestamp is later than now.
C19_AccrualAddsSimpleInterest ==
    \A u \in Accounts, s \in Symbols :
        LET position == Pos(u, s)
            elapsed == now - position.lastUpdateTimestamp
            supplyInterest == InterestDue(position.supplied, assets[s].supplyInterestRate, elapsed)
            borrowInterest == InterestDue(position.borrowed, assets[s].borrowInterestRate, elapsed)
            r == _updateInterest(Ledger, now, s, u)
        IN /\ position.lastUpdateTimestamp <= now
           /\ (last = NoCall /\ position.lastUpdateTimestamp # 0 /\ elapsed > 0 /\ r.err = OK) =>
                r.L = [Ledger EXCEPT
                         !.userPositions[u][s].supplied = @ + supplyInterest,
                         !.userPositions[u][s].borrowed = @ + borrowInterest,
                         !.userPositions[u][s].lastUpdateTimestamp = now,
                         !.assets[s].totalSupplied = @ + supplyInterest,
                         !.assets[s].totalBorrowed = @ + borrowInterest]
           /\ (last = NoCall /\ position.lastUpdateTimestamp # 0 /\ elapsed > 0
               /\ position.supplied * assets[s].supplyInterestRate * elapsed <= MaxUint
               /\ position.borrowed * assets[s].borrowInterestRate * elapsed <= MaxUint
               /\ assets[s].totalSupplied + supplyInterest <= MaxUint
               /\ assets[s].totalBorrowed + borrowInterest <= MaxUint) =>
                r.err = OK

\* A position with both balances is due interest one year after its last
\* update: 5 on the 10 supplied at 5000 bps.
C19_Witness ==
    \E u \in Accounts :
        /\ Idle
        /\ Pos(u, "ETH").lastUpdateTimestamp = 1
        /\ now = 2
        /\ Pos(u, "ETH").supplied = 10
        /\ Pos(u, "ETH").borrowed = 7
        /\ assets["ETH"].supplyInterestRate = 5000
        /\ _updateInterest(Ledger, now, "ETH", u).L.userPositions[u]["ETH"].supplied = 15

\* supply(symbol, x) followed at once by withdraw(symbol, x) by the same
\* account, the token accepting both transfers: the outcome of the first
\* step that fails, or ok, and the storage left.
SupplyThenWithdraw(u, s, x) ==
    LET r1 == supply(Ledger, status, now, u, s, x) IN
    IF r1.err # CALL THEN Res(r1.err, Ledger)
    ELSE LET m == supplyAfterTransfer(r1.L, u, s, x) IN
         IF m.err # OK THEN Res(m.err, Ledger)
         ELSE LET r2 == withdraw(m.L, status, answer, now, u, s, x) IN
              IF r2.err # CALL THEN Res(r2.err, m.L)
              ELSE Res(OK, r2.L)

\* C20 as stated: in every state, for every account, active asset and
\* x > 0, supply(x) then withdraw(x) at the same timestamp succeeds and
\* leaves position.supplied and totalSupplied as they were before the
\* supply, with the borrowed balances unchanged.
C20_SupplyThenWithdrawRestoresStored ==
    \A u \in Accounts, s \in Symbols, x \in Amounts \ {0} :
        (Idle /\ assets[s].isActive /\ assets[s].tokenAddress # NullAddress) =>
            LET r == SupplyThenWithdraw(u, s, x) IN
            /\ r.err = OK
            /\ r.L.userPositions[u][s].supplied = Pos(u, s).supplied
            /\ r.L.assets[s].totalSupplied = assets[s].totalSupplied
            /\ r.L.userPositions[u][s].borrowed = Pos(u, s).borrowed
            /\ r.L.assets[s].totalBorrowed = assets[s].totalBorrowed

\* C20 (amended): when the accrual of the position at the current time
\* succeeds and leaves it without debt, or within the collateral factor at
\* an available price, supply(x) then withdraw(x) at the same timestamp
\* succeeds and leaves the storage exactly as that accrual leaves it: the
\* balances before the supply plus the interest due up to now.
C20_SupplyThenWithdrawRestoresAccrued ==
    \A u \in Accounts, s \in Symbols, x \in Amounts \ {0} :
        (/\ Idle /\ last = NoCall
         /\ assets[s].isActive
         /\ assets[s].tokenAddress # NullAddress
         /\ _updateInterest(Ledger, now, s, u).err = OK
         /\ \/ Accrued(u, s).borrowed = 0
            \/ /\ PriceAvailable(answer, s)
               /\ Fits(Accrued(u, s).supplied, Accrued(u, s).borrowed,
                       PriceOf(answer, s), assets[s].collateralFactor)
               /\ LimitHolds(Accrued(u, s).supplied, Accrued(u, s).borrowed,
                             PriceOf(answer, s), assets[s].collateralFactor))
        => SupplyThenWithdraw(u, s, x) = Res(OK, _updateInterest(Ledger, now, s, u).L)

\* The round trip succeeds from a state where the position carries a debt
\* and is due interest, so that it ends on balances other than the stored.
C20_Witness ==
    \E u \in Accounts :
        /\ Idle /\ last = NoCall
        /\ Pos(u, "ETH").borrowed > 0
        /\ Pos(u, "ETH").lastUpdateTimestamp < now
        /\ SupplyThenWithdraw(u, "ETH", 7).err = OK
        /\ SupplyThenWithdraw(u, "ETH", 7).L # Ledger

\* floor(floor(supplied * price * collateralFactor / 10000) * 10000 /
\* (borrowed * price)), in the integers.
HealthFactorOf(supplied, borrowed, price, bps) ==
    (((supplied * price * bps) \div 10000) * 10000) \div (borrowed * price)

\* C21: getUserHealthFactor returns type(uint256).max for a position
\* without debt and otherwise, when it returns, HealthFactorOf the stored
\* balances under the collateral factor; with collateralFactor 7500 and
\* liquidationThreshold 8500, a position of 10 supplied and 7 borrowed (the
\* spec's 100 and 70 at a tenth) has health factor 10714, and every further
\* borrow that the asset's liquidity covers fails with "Health factor too
\* low" and changes nothing.
C21_HealthFactorValue ==
    \A u \in Accounts, s \in Symbols :
        last = NoCall =>
        LET h == getUserHealthFactor(Ledger, answer, s, u)
            position == Pos(u, s)
        IN /\ position.borrowed = 0 => h = Val(OK, MaxHealthFactor)
           /\ (position.borrowed > 0 /\ h.err = OK) =>
                h.val = HealthFactorOf(position.supplied, position.borrowed,
                                       PriceOf(answer, s), assets[s].collateralFactor)
           /\ (/\ position.supplied = 10 /\ position.borrowed = 7
               /\ assets[s].collateralFactor = 7500
               /\ assets[s].liquidationThreshold = 8500
               /\ PriceAvailable(answer, s)
               /\ Fits(10, 17, PriceOf(answer, s), 10000)) =>
                /\ h = Val(OK, 10714)
                /\ \A a \in Amounts \ {0} :
                     (/\ Idle /\ assets[s].isActive
                      /\ position.lastUpdateTimestamp = now
                      /\ assets[s].totalSupplied >= assets[s].totalBorrowed
                      /\ assets[s].totalSupplied - assets[s].totalBorrowed >= a) =>
                        borrow(Ledger, status, answer, now, u, s, a)
                            = Res("Health factor too low", Ledger)

\* After supply 10 and borrow 7 the health factor is 10714 and a further
\* borrow of 10, which the liquidity covers, has just failed.
C21_Witness ==
    /\ Ended("borrow", "Health factor too low")
    /\ last.amount = 10
    /\ Pos(last.user, "ETH").supplied = 10
    /\ Pos(last.user, "ETH").borrowed = 7
    /\ assets["ETH"].totalSupplied - assets["ETH"].totalBorrowed >= 10
    /\ getUserHealthFactor(Ledger, answer, "ETH", last.user) = Val(OK, 10714)

\* The outcomes of getAssetPrice when the feed gives no positive price.
PriceUnavailable == {"Invalid price", "Feed call failed"}

\* C22: while the feed of a registered asset gives no positive price, a
\* top-level borrow, liquidate, or withdraw on a position with debt never
\* reaches its token call and leaves the storage alone, and fails for the
\* price being unavailable whenever it passes the checks made before the
\* price is read; a withdraw on a position without debt has the outcome it
\* has under every other answer of the feed.  (supply and repay do not read
\* the feed.)
C22_PriceUnavailableBlocksHealthChecks ==
    \A u \in Accounts, b \in Accounts, s \in Symbols, a \in Amounts :
        (/\ Idle /\ last = NoCall
         /\ assets[s].tokenAddress # NullAddress
         /\ ~PriceAvailable(answer, s)) =>
            LET rb == borrow(Ledger, status, answer, now, u, s, a)
                rl == liquidate(Ledger, status, answer, now, u, b, s, a)
                rw == withdraw(Ledger, status, answer, now, u, s, a)
                accrues(v) == _updateInterest(Ledger, now, s, v).err = OK
            IN /\ rb.err # CALL /\ rb.L = Ledger
               /\ rl.err # CALL /\ rl.L = Ledger
               /\ Pos(u, s).borrowed > 0 => (rw.err # CALL /\ rw.L = Ledger)
               /\ (/\ assets[s].isActive /\ a > 0
                   /\ assets[s].totalSupplied >= assets[s].totalBorrowed
                   /\ assets[s].totalSupplied - assets[s].totalBorrowed >= a
                   /\ accrues(u)) => rb.err \in PriceUnavailable
               /\ (/\ assets[s].isActive /\ a > 0
                   /\ Pos(b, s).borrowed > 0
                   /\ accrues(b)) => rl.err \in PriceUnavailable
               /\ (/\ assets[s].isActive /\ a > 0
                   /\ Pos(u, s).supplied >= a
                   /\ Pos(u, s).borrowed > 0
                   /\ accrues(u)) => rw.err \in PriceUnavailable
               /\ Pos(u, s).borrowed = 0 =>
                    \A other \in [FeedAddresses -> Answers] :
                        withdraw(Ledger, status, other, now, u, s, a) = rw

\* The feed answers 0 and a liquidation of a position with debt has just
\* failed for it.
C22_Witness ==
    /\ Ended("liquidate", "Invalid price")
    /\ Pos(last.user, last.symbol).borrowed > 0
    /\ ~PriceAvailable(answer, last.symbol)

\* C23: a top-level supply fails with "Asset not active" on an asset that
\* is unregistered or inactive, with "Amount must be greater than 0" when
\* amount is 0 on an active asset, and otherwise, whatever the position's
\* debt, accrues the position, asks the token for amount and, the transfer
\* done, has added exactly amount to position.supplied and totalSupplied on
\* top of the accrual.
C23_SupplyIsUnconditional ==
    \A u \in Accounts, s \in Symbols, a \in Amounts :
        (Idle /\ last = NoCall) =>
            LET r == supply(Ledger, status, now, u, s, a)
                acc == _updateInterest(Ledger, now, s, u)
            IN IF ~assets[s].isActive THEN r = Res("Asset not active", Ledger)
               ELSE IF a = 0 THEN r = Res("Amount must be greater than 0", Ledger)
               ELSE acc.err = OK =>
                      /\ r = AtCall(acc.L, a, 0)
                      /\ supplyAfterTransfer(r.L, u, s, a)
                           = Res(OK, [acc.L EXCEPT
                                   !.userPositions[u][s].supplied = @ + a,
                                   !.assets[s].totalSupplied = @ + a])

\* A supply of 7 has succeeded on a position whose debt of 14 exceeds three
\* quarters of its collateral of 17.
C23_Witness ==
    /\ Ended("supply", OK)
    /\ last.amount = 7
    /\ Pos(last.user, last.symbol).supplied = 17
    /\ Pos(last.user, last.symbol).borrowed = 14
    /\ assets[last.symbol].collateralFactor = 7500

\* What addAsset and updateAsset store of an asset: the record without its
\* totals.
Registry(A) == [s \in Symbols |-> [A[s] EXCEPT !.totalSupplied = 0, !.totalBorrowed = 0]]

\* C24: an addAsset or updateAsset by a caller other than the owner fails
\* as unauthorized and leaves the assets, the symbol list and the positions
\* unchanged; and every step that changes an asset's addresses, factors,
\* rates or isActive, or the symbol list, is a successful addAsset or
\* updateAsset by the owner.
C24_OnlyOwnerChangesRegistry ==
    [][ /\ (last = NoCall /\ last'.op \in {"addAsset", "updateAsset"}
            /\ last'.user # owner) =>
              /\ last'.err = UNAUTHORIZED
              /\ UNCHANGED <<assets, assetSymbols, userPositions>>
        /\ (Registry(assets') # Registry(assets) \/ assetSymbols' # assetSymbols) =>
              /\ last = NoCall
              /\ last'.op \in {"addAsset", "updateAsset"}
              /\ last'.user = owner
              /\ last'.err = OK
      ]_vars

\* bob's updateAsset on a registered asset has just been refused.
C24_Witness ==
    /\ Ended("updateAsset", UNAUTHORIZED)
    /\ last.user = "bob"
    /\ Registered(last.symbol)
    /\ assets[last.symbol].isActive

InRange(x) == x >= 0 /\ x <= MaxUint

\* a * b > MaxUint, for naturals, decided without forming the product.
Exceeds(a, b) == b > 0 /\ a > MaxUint \div b

\* a * b * c > MaxUint, for naturals with c > 0.
Exceeds3(a, b, c) == Exceeds(a, b) \/ (c > 0 /\ Exceeds(a * b, c))

\* An exact product of the accrual of (u, s) at the current time exceeds
\* the word.
AccrualOverflows(u, s) ==
    /\ Pos(u, s).lastUpdateTimestamp # 0
    /\ now > Pos(u, s).lastUpdateTimestamp
    /\ \/ Exceeds3(Pos(u, s).supplied, assets[s].supplyInterestRate,
                    now - Pos(u, s).lastUpdateTimestamp)
       \/ Exceeds3(Pos(u, s).borrowed, assets[s].borrowInterestRate,
                    now - Pos(u, s).lastUpdateTimestamp)

\* An exact product of the limit check of (u, s) under bps exceeds the word.
LimitOverflows(u, s, bps) ==
    /\ Pos(u, s).borrowed > 0
    /\ PriceAvailable(answer, s)
    /\ bps > 0
    /\ \/ Exceeds3(Pos(u, s).supplied, PriceOf(answer, s), bps)
       \/ Exceeds(Pos(u, s).borrowed, PriceOf(answer, s))

\* C25: every stored balance is within 0..MaxUint; when a product of the
\* accrual exceeds MaxUint, _updateInterest and every function that runs it
\* fail with a Panic and leave the storage alone; when a product of the
\* health computation exceeds MaxUint, _checkHealthFactor and _isHealthy
\* fail with a Panic, and so does the liquidate that evaluates them.
C25_OverflowRevertsNeverWraps ==
    /\ \A s \in Symbols :
          InRange(assets[s].totalSupplied) /\ InRange(assets[s].totalBorrowed)
    /\ \A u \in Accounts, s \in Symbols :
          /\ InRange(Pos(u, s).supplied) /\ InRange(Pos(u, s).borrowed)
          /\ AccrualOverflows(u, s) =>
                /\ _updateInterest(Ledger, now, s, u) = Res(PANIC, Ledger)
                /\ (Idle /\ last = NoCall /\ assets[s].isActive) =>
                     \A a \in Amounts \ {0}, l \in Accounts :
                        /\ supply(Ledger, status, now, u, s, a) = Res(PANIC, Ledger)
                        /\ Pos(u, s).supplied >= a =>
                             withdraw(Ledger, status, answer, now, u, s, a) = Res(PANIC, Ledger)
                        /\ (/\ assets[s].totalSupplied >= assets[s].totalBorrowed
                            /\ assets[s].totalSupplied - assets[s].totalBorrowed >= a) =>
                             borrow(Ledger, status, answer, now, u, s, a) = Res(PANIC, Ledger)
                        /\ Pos(u, s).borrowed > 0 =>
                             /\ repay(Ledger, status, now, u, s, a) = Res(PANIC, Ledger)
                             /\ liquidate(Ledger, status, answer, now, l, u, s, a)
                                  = Res(PANIC, Ledger)
          /\ LimitOverflows(u, s, assets[s].collateralFactor) =>
                _checkHealthFactor(Ledger, answer, s, u, Pos(u, s).supplied, Pos(u, s).borrowed)
                    = Val(PANIC, FALSE)
          /\ LimitOverflows(u, s, assets[s].liquidationThreshold) =>
                /\ _isHealthy(Ledger, answer, s, u) = Val(PANIC, FALSE)
                /\ (/\ Idle /\ last = NoCall /\ assets[s].isActive
                    /\ Pos(u, s).lastUpdateTimestamp = now) =>
                     \A a \in Amounts \ {0}, l \in Accounts :
                        liquidate(Ledger, status, answer, now, l, u, s, a) = Res(PANIC, Ledger)

\* A repay has just failed with a Panic on a debt whose interest product
\* exceeds the word.
C25_Witness ==
    /\ Ended("repay", PANIC)
    /\ AccrualOverflows(last.user, last.symbol)
    /\ Exceeds(Pos(last.user, last.symbol).borrowed, assets[last.symbol].borrowInterestRate)

\* The sum of f[u] over the accounts of U.
RECURSIVE SumOver(_, _)
SumOver(U, f) ==
    IF U = {} THEN 0
    ELSE LET u == CHOOSE v \in U : TRUE IN f[u] + SumOver(U \ {u}, f)

\* C26: in every state, for every asset, totalSupplied is the sum of
\* position.supplied and totalBorrowed the sum of position.borrowed over
\* all accounts: supply, withdraw, borrow, repay, liquidate and the accrual
\* they run keep both equalities, at their token calls too.
C26_TotalsAreSumsOfPositions ==
    \A s \in Symbols :
        /\ assets[s].totalSupplied = SumOver(Accounts, [u \in Accounts |-> Pos(u, s).supplied])
        /\ assets[s].totalBorrowed = SumOver(Accounts, [u \in Accounts |-> Pos(u, s).borrowed])

\* Two accounts hold collateral and one of them has just been liquidated
\* after a year of interest on its debt.
C26_Witness ==
    /\ Ended("liquidate", OK)
    /\ Pos("alice", "ETH").supplied > 0
    /\ Pos("bob", "ETH").supplied > 0
    /\ Pos(last.user, "ETH").borrowed > 0
    /\ now > 1

\* supplied * bps >= 10000 * borrowed: the limit with the price cancelled.
LimitWithoutPrice(supplied, borrowed, bps) == supplied * bps >= 10000 * borrowed

\* C27: for every stored position and every positive answer of the feed,
\* _isHealthy and _checkHealthFactor, when they return, return what the
\* limit with the price cancelled gives, hence the same boolean under any
\* two positive prices: no change of price makes a position liquidatable.
C27_SolvencyIgnoresPrice ==
    \A u \in Accounts, s \in Symbols, o \in [FeedAddresses -> Answers \ {0}] :
        (last = NoCall /\ assets[s].tokenAddress # NullAddress) =>
            LET position == Pos(u, s)
                h == _isHealthy(Ledger, o, s, u)
                c == _checkHealthFactor(Ledger, o, s, u, position.supplied, position.borrowed)
                hNow == _isHealthy(Ledger, answer, s, u)
            IN /\ h.err = OK =>
                    h.val = (position.borrowed = 0
                             \/ LimitWithoutPrice(position.supplied, position.borrowed,
                                                  assets[s].liquidationThreshold))
               /\ c.err = OK =>
                    c.val = (position.borrowed = 0
                             \/ LimitWithoutPrice(position.supplied, position.borrowed,
                                                  assets[s].collateralFactor))
               /\ (h.err = OK /\ hNow.err = OK) => h.val = hNow.val

\* The feed's answer has doubled and a liquidation of a position with debt
\* has just been refused because the position is healthy.
C27_Witness ==
    /\ Ended("liquidate", "Position is healthy")
    /\ Pos(last.user, last.symbol).borrowed > 0
    /\ answer[assets[last.symbol].priceFeedAddress] = 2

\* C28: in the state a successful borrow or withdraw leaves, every
\* liquidate with amount > 0 against the caller's position on that asset
\* fails and changes nothing, with "Position is healthy" or "No outstanding
\* loan" unless the product of the threshold check exceeds the word.
C28_OperationalPositionIsNotSeizable ==
    (Ended("borrow", OK) \/ Ended("withdraw", OK)) =>
        \A l \in Accounts, a \in Amounts \ {0} :
            LET u == last.user
                s == last.symbol
                r == liquidate(Ledger, status, answer, now, l, u, s, a)
            IN /\ r.err # CALL
               /\ r.L = Ledger
               /\ (Pos(u, s).borrowed = 0
                   \/ Fits(Pos(u, s).supplied, Pos(u, s).borrowed, PriceOf(answer, s),
                           assets[s].liquidationThreshold))
                  => r.err \in {"Position is healthy", "No outstanding loan"}

\* A borrow of 7 against 10 supplied, as much as the collateral factor of
\* 7500 allows, has just succeeded.
C28_Witness ==
    /\ Ended("borrow", OK)
    /\ Pos(last.user, last.symbol).supplied = 10
    /\ Pos(last.user, last.symbol).borrowed = 7
    /\ assets[last.symbol].collateralFactor = 7500
    /\ liquidate(Ledger, status, answer, now, "bob", last.user, last.symbol, 7).err
          = "Position is healthy"

\* A liquidate(b, s, a) by l made in this state that reaches its token
\* calls, and the borrower's health factor after accrual, before the
\* liquidation and after it: the factor does not decrease when the position
\* is left with debt and, where `covered` is asked for, its accrued
\* collateral was at least 1.1 times its accrued debt.
LiquidationKeepsHealthFactor(l, b, s, a, covered) ==
    LET r == liquidate(Ledger, status, answer, now, l, b, s, a) IN
    r.err = CALL =>
        LET done == liquidateAfterTransfer(r.L, b, s, r.amount, r.seize)
            before == getUserHealthFactor(r.L, answer, s, b)
            after == getUserHealthFactor(done.L, answer, s, b)
        IN (/\ done.err = CALL
            /\ done.L.userPositions[b][s].borrowed > 0
            /\ covered =>
                  10 * r.L.userPositions[b][s].supplied
                      >= 11 * r.L.userPositions[b][s].borrowed
            /\ before.err = OK /\ after.err = OK)
           => after.val >= before.val

\* C29 as stated: every successful liquidation that leaves a debt leaves
\* the borrower's health factor at least what it was before it.
C29_LiquidationNeverLowersHealthFactor ==
    \A l \in Accounts, b \in Accounts, s \in Symbols, a \in Amounts :
        (Idle /\ last = NoCall) =>
            LiquidationKeepsHealthFactor(l, b, s, a, FALSE)

\* C29 (amended): a successful liquidation that leaves a debt leaves the
\* borrower's health factor at least what it was before it, provided the
\* collateral after accrual covered the debt with its bonus:
\* 10 * supplied >= 11 * borrowed.
C29_LiquidationOfCoveredDebtKeepsHealthFactor ==
    \A l \in Accounts, b \in Accounts, s \in Symbols, a \in Amounts :
        (Idle /\ last = NoCall) =>
            LiquidationKeepsHealthFactor(l, b, s, a, TRUE)

\* A liquidation of 7 on a position of 16 supplied and 14 borrowed has
\* succeeded, leaving 9 and 7.
C29_Witness ==
    /\ Ended("liquidate", OK)
    /\ last.amount = 7
    /\ Pos(last.user, last.symbol).supplied = 9
    /\ Pos(last.user, last.symbol).borrowed = 7

\* Every position but (u, s) and every asset record but that of s are the
\* same in the next state.
OthersUnchanged(u, s) ==
    /\ \A v \in Accounts, t \in Symbols :
          (v # u \/ t # s) => userPositions'[v][t] = userPositions[v][t]
    /\ \A t \in Symbols : t # s => assets'[t] = assets[t]
    /\ Registry(assets') = Registry(assets)

\* C30: a step of supply, withdraw, borrow, repay or liquidate, up to a
\* token call, after it, or reverting, changes no position but that of the
\* account it is on (for liquidate the borrower, never the liquidator) for
\* its asset, and of the asset records only the totals of that asset; and
\* no other step changes a position.
C30_OperationTouchesOnlyItsPosition ==
    [][ /\ (Idle /\ ~Idle') => OthersUnchanged(frame'.user, frame'.symbol)
        /\ ~Idle => OthersUnchanged(frame.user, frame.symbol)
        /\ (Idle /\ Idle') => userPositions' = userPositions
      ]_vars

\* A liquidation by bob of alice's ETH position has ended while bob and
\* alice hold DAI positions that are due interest.
C30_Witness ==
    /\ Ended("liquidate", OK)
    /\ last.user = "alice" /\ last.symbol = "ETH"
    /\ Pos("alice", "ETH").supplied = 3
    /\ Pos("alice", "DAI").supplied = 7
    /\ Pos("bob", "DAI").supplied = 7
    /\ Pos("bob", "DAI").lastUpdateTimestamp < now
    /\ Pos("bob", "ETH").supplied = 0

====
